---- MODULE Spec2Model ----
(***************************************************************************)
(* Model of downloadArfcomThread.py: the crawl loop ArfcomThread.download, *)
(* the Post extractor (getPostID, getAuthor, getTime, getText) and the     *)
(* sqlite sink (sql_table, sql_insert).                                    *)
(*                                                                         *)
(* Text is a sequence of one-character strings, so that strip, split,      *)
(* join, int() and the regular expression of getPostID are computed as     *)
(* Python computes them.  A Python value that may be None is a sequence of *)
(* length 0 (None) or 1 (the value).                                       *)
(***************************************************************************)
EXTENDS Integers, Sequences, FiniteSets, TLC

\* ------------------------------------------------------------------ bounds
\* Pages the thread may announce and the crawl may visit.
MaxPages == 2
\* Candidate fragments ('expanded row' divs) on one page.
MaxFrags == 2
\* Index-label divs inside one fragment.
MaxLabels == 2

\* ------------------------------------------------------- program constants
\* Posts per page, the factor of the id formula.
PostsPerPage == 50
\* lastPage before page 1 has been read.
InitialLastPage == 1000

\* ------------------------------------------------------------ Python values
None == <<>>
Some(v) == <<v>>
Val(o) == o[1]

\* Python truthiness of an optional int (None and 0 are falsy).
TruthyInt(o) == o # None /\ Val(o) # 0
\* Python truthiness of an optional str (None and "" are falsy).
TruthyStr(o) == o # None /\ Len(Val(o)) > 0

\* ------------------------------------------------------------------- text
DigitChars == {"0", "1", "2", "3", "4", "5", "6", "7", "8", "9"}

DigitVal(c) ==
    CASE c = "0" -> 0 [] c = "1" -> 1 [] c = "2" -> 2 [] c = "3" -> 3
      [] c = "4" -> 4 [] c = "5" -> 5 [] c = "6" -> 6 [] c = "7" -> 7
      [] c = "8" -> 8 [] c = "9" -> 9

IsSpace(c) == c = " "

\* str.strip(): drop leading and trailing whitespace.
RECURSIVE LStrip(_)
LStrip(s) ==
    IF s # <<>> /\ IsSpace(Head(s)) THEN LStrip(Tail(s)) ELSE s

RECURSIVE RStrip(_)
RStrip(s) ==
    IF s # <<>> /\ IsSpace(s[Len(s)]) THEN RStrip(SubSeq(s, 1, Len(s) - 1)) ELSE s

Strip(s) == RStrip(LStrip(s))

\* str.split() without argument: the maximal runs of non-whitespace.
RECURSIVE SplitFrom(_, _, _)
SplitFrom(s, cur, acc) ==
    IF s = <<>>
    THEN IF cur = <<>> THEN acc ELSE Append(acc, cur)
    ELSE IF IsSpace(Head(s))
         THEN SplitFrom(Tail(s), <<>>, IF cur = <<>> THEN acc ELSE Append(acc, cur))
         ELSE SplitFrom(Tail(s), Append(cur, Head(s)), acc)

Split(s) == SplitFrom(s, <<>>, <<>>)

\* " ".join(tokens)
RECURSIVE Join(_)
Join(toks) ==
    IF toks = <<>> THEN <<>>
    ELSE IF Len(toks) = 1 THEN toks[1]
    ELSE toks[1] \o <<" ">> \o Join(Tail(toks))

\* Python slice seq[1:-1]
SliceInner(toks) ==
    IF Len(toks) <= 2 THEN <<>> ELSE SubSeq(toks, 2, Len(toks) - 1)

\* int(str): an optional sign and one or more decimal digits; anything else
\* is a ValueError, rendered as None.
RECURSIVE DigitsValue(_, _)
DigitsValue(s, acc) ==
    IF s = <<>> THEN acc ELSE DigitsValue(Tail(s), 10 * acc + DigitVal(Head(s)))

AllDigits(s) == s # <<>> /\ \A i \in 1..Len(s) : s[i] \in DigitChars

ParseInt(s0) ==
    LET s == Strip(s0) IN
    IF s # <<>> /\ Head(s) \in {"-", "+"}
    THEN IF AllDigits(Tail(s))
         THEN Some((IF Head(s) = "-" THEN -1 ELSE 1) * DigitsValue(Tail(s), 0))
         ELSE None
    ELSE IF AllDigits(s) THEN Some(DigitsValue(s, 0)) ELSE None

\* str(int) for a non-negative int, as the f-string of line 214 formats it.
DigitChar(d) ==
    CASE d = 0 -> "0" [] d = 1 -> "1" [] d = 2 -> "2" [] d = 3 -> "3"
      [] d = 4 -> "4" [] d = 5 -> "5" [] d = 6 -> "6" [] d = 7 -> "7"
      [] d = 8 -> "8" [] d = 9 -> "9"

RECURSIVE ToStr(_)
ToStr(n) ==
    IF n < 10 THEN <<DigitChar(n)>> ELSE Append(ToStr(n \div 10), DigitChar(n % 10))

\* ------------------------------------------------- re.search('[\#[0-9]+]')
\* The pattern is one character class, [\#[0-9], repeated greedily, then a
\* literal ']'.  The class holds '#', '[' and the ten digits.
ClassChars == {"#", "["} \cup DigitChars

\* The ends j of a match starting at i: s[i..j] in the class and s[j+1] = ']'.
MatchEnds(s, i) ==
    {j \in i..(Len(s) - 1) :
        /\ \A k \in i..j : s[k] \in ClassChars
        /\ s[j + 1] = "]"}

Max(S) == CHOOSE x \in S : \A y \in S : y <= x
Min(S) == CHOOSE x \in S : \A y \in S : x <= y

\* The leftmost match, the greedy one at that position; None when no match.
reSearch(s) ==
    LET starts == {i \in 1..Len(s) : MatchEnds(s, i) # {}} IN
    IF starts = {} THEN None
    ELSE LET i == Min(starts) IN Some(SubSeq(s, i, Max(MatchEnds(s, i)) + 1))

\* ---------------------------------------------------------------- class Post
NoError == "none"

\* One pass of the loop of getPostID over the index-label divs: idv.text is
\* labels[1]; acc is self.id so far.  int() failing raises ValueError.
RECURSIVE getPostIDLoop(_, _, _)
getPostIDLoop(labels, page, acc) ==
    IF labels = <<>> THEN [id |-> acc, raised |-> NoError]
    ELSE LET idf == reSearch(Head(labels)) IN
         IF idf # None /\ Val(idf)[1] = "["
         THEN LET n == ParseInt(SubSeq(Val(idf), 3, Len(Val(idf)) - 1)) IN
              IF n = None THEN [id |-> acc, raised |-> "ValueError"]
              ELSE getPostIDLoop(Tail(labels), page,
                                 Some(PostsPerPage * (page - 1) + Val(n)))
         ELSE getPostIDLoop(Tail(labels), page, acc)

getPostID(post, page) == getPostIDLoop(post.labels, page, None)

\* post.find('a') is None: AttributeError is caught, author is None, and then
\* len(None) raises TypeError.
getAuthor(post) ==
    IF post.anchor = None THEN [author |-> None, raised |-> "TypeError"]
    ELSE LET a == Strip(Val(post.anchor)) IN
         [author |-> IF Len(a) <= 0 THEN None ELSE Some(a), raised |-> NoError]

\* No timestamp div (AttributeError) or no contents[1] (IndexError): both are
\* caught, time is None, and then len(None) raises TypeError.
getTime(post) ==
    IF post.timestamp = None \/ Len(Val(post.timestamp)) < 2
    THEN [time |-> None, raised |-> "TypeError"]
    ELSE LET timestr == Strip(Val(post.timestamp)[2])
             t == Join(SliceInner(Split(timestr)))
         IN  [time |-> IF Len(t) <= 0 THEN None ELSE Some(t), raised |-> NoError]

\* No body div: .text on None raises AttributeError, which 'except KeyError'
\* does not catch.
getText(post) ==
    IF post.body = None THEN [text |-> None, raised |-> "AttributeError"]
    ELSE [text |-> Some(Strip(Val(post.body))), raised |-> NoError]

\* Post.__init__: the four getters in order; the first exception leaves the
\* constructor, the later fields are never extracted.
Post(post, pagenum) ==
    LET i == getPostID(post, pagenum)
        a == getAuthor(post)
        t == getTime(post)
        x == getText(post)
        blank == [id |-> None, page |-> pagenum, author |-> None, time |-> None,
                  text |-> None, raised |-> NoError]
    IN  IF i.raised # NoError THEN [blank EXCEPT !.id = i.id, !.raised = i.raised]
        ELSE IF a.raised # NoError
             THEN [blank EXCEPT !.id = i.id, !.raised = a.raised]
        ELSE IF t.raised # NoError
             THEN [blank EXCEPT !.id = i.id, !.author = a.author, !.raised = t.raised]
        ELSE [id |-> i.id, page |-> pagenum, author |-> a.author, time |-> t.time,
              text |-> x.text, raised |-> x.raised]

\* The test of line 236.
Gate(newpost) ==
    /\ TruthyInt(newpost.id)
    /\ TruthyStr(newpost.author)
    /\ TruthyStr(newpost.time)
    /\ TruthyStr(newpost.text)

\* PostEntities with the page counted from 0.
PostEntitiesZeroBased(newpost) ==
    [id |-> Val(newpost.id), author |-> Val(newpost.author),
     time |-> Val(newpost.time), postText |-> Val(newpost.text),
     page |-> newpost.page - 1]

\* The tuple of lines 237-238.
PostEntities(newpost) ==
    [id |-> Val(newpost.id), author |-> Val(newpost.author),
     time |-> Val(newpost.time), postText |-> Val(newpost.text),
     page |-> newpost.page]

\* ------------------------------------------------------------------ inputs
\* threadPage, the first-page URL given on the command line.
threadPage == <<"h", "/", "t", "/">>

\* Texts of index-label divs: markers, a marker without '#', digits without
\* '#' after the bracket, a stray "7]" before a marker, and plain text.
L1 == <<"[", "#", "1", "]">>
L0 == <<"[", "#", "0", "]">>
L51 == <<"[", "#", "5", "1", "]">>
LNoHash == <<"[", "1", "2", "]">>
LOneDigit == <<"[", "7", "]">>
LStray == <<"7", "]", " ", "[", "#", "1", "]">>
LQuote == <<"Q", "u", "o", "t", "e">>

LabelTexts == {L1, L0, L51, LNoHash, LOneDigit, LStray, LQuote}

\* All sequences over S of length at most n.
SeqsUpTo(S, n) == UNION {[1..k -> S] : k \in 0..n}

\* The index-label divs a fragment of the extractor's own specification has.
LabelLists == SeqsUpTo(LabelTexts, MaxLabels)

\* The index-label divs of the fragments the crawl meets.
CrawlLabelLists ==
    {<<>>, <<L1>>, <<L0>>, <<L51>>, <<L1, L51>>, <<LQuote, L1>>, <<LOneDigit>>}

\* First anchor of a fragment: none, blank text, a name.
Anchors == {None, Some(<<" ">>), Some(<<" ", "a", "l", " ">>)}

\* Timestamp div: none, a div with one child, and divs whose second child
\* reads "P Z" (nothing between first and last token) or " P M J Z ".
Timestamps ==
    {None,
     Some(<< <<" ">> >>),
     Some(<< <<" ">>, <<"P", " ", "Z">> >>),
     Some(<< <<" ">>, <<" ", "P", " ", "M", " ", " ", "J", " ", "Z", " ">> >>)}

\* Body div: none, blank (an image-only post), text.
Bodies == {None, Some(<<" ">>), Some(<<"h", "i", " ">>)}

FragmentsOver(lists) ==
    [labels : lists, anchor : Anchors, timestamp : Timestamps, body : Bodies]

Fragments == FragmentsOver(CrawlLabelLists)

\* Text of the page selector of a thread of n pages: "1 2 ... n".
RECURSIVE PageList(_)
PageList(n) ==
    IF n <= 1 THEN ToStr(n) ELSE PageList(n - 1) \o <<" ">> \o ToStr(n)

\* select.pages of page 1: none, blank, ending in a word, ending in a
\* negative number, or a page list.
Selectors ==
    {None, Some(<<" ">>), Some(<<"1", " ", "o", "f">>), Some(<<"-", "1">>)}
        \cup {Some(<<" ">> \o PageList(n) \o <<" ">>) : n \in 0..MaxPages}

\* A row that an earlier crawl left in the store.
OldRow ==
    [id |-> 1, author |-> <<"a", "l">>, time |-> <<"M", " ", "J">>,
     postText |-> <<"h", "i">>, page |-> 1]

\* ------------------------------------------------------------------- state
VARIABLES
    pc,          \* position in download
    tableExists, \* the store holds the table posts
    rows,        \* the rows of posts, in insertion order
    page,        \* local page
    lastPage,    \* local lastPage
    requested,   \* the URLs given to session.get, in order
    selector,    \* select.pages of page 1, once page 1 has been fetched
    frag,        \* number of fragments of divsFound taken so far on this page
    post,        \* loop variable post: None while unbound
    newpost,     \* local newpost: None while unbound
    raised,      \* the exception that left download, or NoError
    reported,    \* ArfcomThread.__init__ has printed and plotted
    accepted,    \* history: <<page, fragment>> of every fragment passing line 236
    emitted      \* history: <<page, fragment>> of every row inserted by this crawl

vars ==
    <<pc, tableExists, rows, page, lastPage, requested, selector, frag, post,
      newpost, raised, reported, accepted, emitted>>

Init ==
    /\ pc = "start"
    /\ tableExists \in BOOLEAN
    /\ rows \in (IF tableExists THEN {<<>>, <<OldRow>>} ELSE {<<>>})
    /\ page = 1
    /\ lastPage = InitialLastPage
    /\ requested = <<>>
    /\ selector = None
    /\ frag = 0
    /\ post = None
    /\ newpost = None
    /\ raised = NoError
    /\ reported = FALSE
    /\ accepted = <<>>
    /\ emitted = <<>>

Abort(exc) ==
    /\ pc' = "aborted"
    /\ raised' = exc

\* sql_table: CREATE TABLE posts(...), which fails when the table exists.
sql_table ==
    IF tableExists
    THEN /\ Abort("OperationalError")
         /\ UNCHANGED <<tableExists, rows>>
    ELSE /\ tableExists' = TRUE
         /\ rows' = <<>>
         /\ pc' = "fetch"
         /\ UNCHANGED raised

\* Lines 191-202: open the store, create the table, set up the loop.
CreateTable ==
    /\ pc = "start"
    /\ sql_table
    /\ page' = 1
    /\ lastPage' = InitialLastPage
    /\ UNCHANGED <<requested, selector, frag, post, newpost, reported, accepted,
                   emitted>>

\* Lines 211-214.
Url(p) ==
    IF p = 1 THEN threadPage
    ELSE threadPage \o <<"?", "p", "a", "g", "e", "=">> \o ToStr(p)

\* ParseLastPage falling back to one page when the selector cannot be read.
ParseLastPageDefault(sel) ==
    IF sel = None THEN [value |-> Some(1), raised |-> NoError]
    ELSE LET toks == Split(Strip(Val(sel))) IN
         IF toks = <<>> \/ ParseInt(toks[Len(toks)]) = None
         THEN [value |-> Some(1), raised |-> NoError]
         ELSE [value |-> ParseInt(toks[Len(toks)]), raised |-> NoError]

\* Lines 222-225: int(soup.find('select', class_='pages').text.strip().split()[-1])
\* The result is [value, raised].
ParseLastPage(sel) ==
    IF sel = None THEN [value |-> None, raised |-> "AttributeError"]
    ELSE LET toks == Split(Strip(Val(sel))) IN
         IF toks = <<>> THEN [value |-> None, raised |-> "IndexError"]
         ELSE LET n == ParseInt(toks[Len(toks)]) IN
              IF n = None THEN [value |-> None, raised |-> "ValueError"]
              ELSE [value |-> n, raised |-> NoError]

\* Lines 205-228 with a response: request the page, and on page 1 read
\* lastPage from the selector.
Fetch ==
    /\ pc = "fetch"
    /\ page <= lastPage
    /\ requested' = Append(requested, Url(page))
    /\ IF page = 1
       THEN \E sel \in Selectors :
              LET lp == ParseLastPage(sel) IN
              /\ selector' = Some(sel)
              /\ IF lp.raised # NoError
                 THEN Abort(lp.raised) /\ UNCHANGED lastPage
                 ELSE /\ lastPage' = Val(lp.value)
                      /\ pc' = "posts"
                      /\ UNCHANGED raised
       ELSE /\ pc' = "posts"
            /\ UNCHANGED <<selector, lastPage, raised>>
    /\ frag' = 0
    /\ UNCHANGED <<tableExists, rows, page, post, newpost, reported, accepted,
                   emitted>>

\* Line 217 raising: session.get fails, the exception leaves download.
FetchFails ==
    /\ pc = "fetch"
    /\ page <= lastPage
    /\ requested' = Append(requested, Url(page))
    /\ Abort("ConnectionError")
    /\ UNCHANGED <<tableExists, rows, page, lastPage, selector, frag, post,
                   newpost, reported, accepted, emitted>>

\* Lines 231-234: the next fragment of divsFound, and Post(post, pagenum=page).
\* The fragments of the response are drawn one at a time, as the loop reaches
\* them; a Tag is always true, so 'if post' lets every fragment through.
Extract ==
    /\ pc = "posts"
    /\ frag < MaxFrags
    /\ \E f \in Fragments :
         /\ post' = Some(f)
         /\ newpost' = Some(Post(f, page))
    /\ frag' = frag + 1
    /\ IF Val(newpost').raised # NoError
       THEN Abort(Val(newpost').raised)
       ELSE pc' = "gate" /\ UNCHANGED raised
    /\ UNCHANGED <<tableExists, rows, page, lastPage, requested, selector,
                   reported, accepted, emitted>>

RowIds(rs) == {rs[i].id : i \in 1..Len(rs)}

\* sql_insert into a table without a key: every row is appended.
sql_insertNoKey(entities) ==
    /\ rows' = Append(rows, entities)
    /\ pc' = "posts"
    /\ UNCHANGED raised

\* sql_insert keeping the newest row first.
sql_insertNewestFirst(entities) ==
    IF entities.id \in RowIds(rows)
    THEN /\ Abort("IntegrityError")
         /\ UNCHANGED rows
    ELSE /\ rows' = <<entities>> \o rows
         /\ pc' = "posts"
         /\ UNCHANGED raised

\* sql_insert: INSERT into a table whose id is the PRIMARY KEY; a second row
\* with an id raises IntegrityError and changes nothing.
sql_insert(entities) ==
    IF entities.id \in RowIds(rows)
    THEN /\ Abort("IntegrityError")
         /\ UNCHANGED rows
    ELSE /\ rows' = Append(rows, entities)
         /\ pc' = "posts"
         /\ UNCHANGED raised

\* Lines 236-239.  post and newpost are not read again before the next pass
\* of the loop rebinds them, so the pass ends with both cleared.
Insert ==
    /\ pc = "gate"
    /\ IF Gate(Val(newpost))
       THEN /\ sql_insert(PostEntities(Val(newpost)))
            /\ accepted' = Append(accepted, <<page, frag>>)
            /\ emitted' = IF pc' = "posts" THEN Append(emitted, <<page, frag>>)
                          ELSE emitted
       ELSE /\ pc' = "posts"
            /\ UNCHANGED <<rows, raised, accepted, emitted>>
    /\ post' = None
    /\ newpost' = IF pc' = "aborted" THEN newpost ELSE None
    /\ UNCHANGED <<tableExists, page, lastPage, requested, selector, frag,
                   reported>>

\* Line 240: divsFound is exhausted.
NextPage ==
    /\ pc = "posts"
    /\ page' = page + 1
    /\ pc' = "fetch"
    /\ UNCHANGED <<tableExists, rows, lastPage, requested, selector, frag, post,
                   newpost, raised, reported, accepted, emitted>>

\* Lines 205 and 241: the loop condition fails.
LoopEnd ==
    /\ pc = "fetch"
    /\ page > lastPage
    /\ pc' = "report"
    /\ UNCHANGED <<tableExists, rows, page, lastPage, requested, selector, frag,
                   post, newpost, raised, reported, accepted, emitted>>

\* Line 244 and ArfcomThread.__init__: read the rows back, print, plot.
Report ==
    /\ pc = "report"
    /\ reported' = TRUE
    /\ pc' = "done"
    /\ UNCHANGED <<tableExists, rows, page, lastPage, requested, selector, frag,
                   post, newpost, raised, accepted, emitted>>

Next ==
    \/ CreateTable
    \/ Fetch
    \/ FetchFails
    \/ Extract
    \/ Insert
    \/ NextPage
    \/ LoopEnd
    \/ Report

Spec == Init /\ [][Next]_vars

\* ------------------------------------------------ the extractor on its own
\* Post(post, pagenum) applied to every fragment over LabelLists and every
\* page number, outside any crawl.
InitPost ==
    /\ pc = "extractor"
    /\ tableExists = FALSE
    /\ rows = <<>>
    /\ page = 1
    /\ lastPage = InitialLastPage
    /\ requested = <<>>
    /\ selector = None
    /\ frag = 0
    /\ post = None
    /\ newpost = None
    /\ raised = NoError
    /\ reported = FALSE
    /\ accepted = <<>>
    /\ emitted = <<>>

ApplyPost ==
    /\ pc = "extractor"
    /\ \E f \in FragmentsOver(LabelLists), p \in 1..MaxPages :
         /\ post' = Some(f)
         /\ page' = p
         /\ newpost' = Some(Post(f, p))
    /\ raised' = Val(newpost').raised
    /\ pc' = "extracted"
    /\ UNCHANGED <<tableExists, rows, lastPage, requested, selector, frag,
                   reported, accepted, emitted>>

SpecPost == InitPost /\ [][ApplyPost]_vars

\* ------------------------------------------------------ claim vocabulary
\* The spans <<i, j>> of text s that read [#<digits>]: '[' at i, '#' at
\* i + 1, digits up to j, ']' at j + 1.
MarkerSpans(s) ==
    {sp \in (1..Len(s)) \X (1..Len(s)) :
        /\ sp[1] + 2 <= sp[2]
        /\ sp[2] + 1 <= Len(s)
        /\ s[sp[1]] = "["
        /\ s[sp[1] + 1] = "#"
        /\ \A k \in (sp[1] + 2)..sp[2] : s[k] \in DigitChars
        /\ s[sp[2] + 1] = "]"}

HasMarker(s) == MarkerSpans(s) # {}

\* The integer of the first marker of s.
MarkerValue(s) ==
    LET sp == CHOOSE x \in MarkerSpans(s) : \A y \in MarkerSpans(s) : x[1] <= y[1]
    IN  DigitsValue(SubSeq(s, sp[1] + 2, sp[2]), 0)

\* The index-label divs of fragment f that carry a marker.
MarkedLabels(f) == {i \in 1..Len(f.labels) : HasMarker(f.labels[i])}

\* The fragment has no anchor, or an anchor of blank text.
AuthorMissing(f) == f.anchor = None \/ Strip(Val(f.anchor)) = <<>>
\* The fragment has no timestamp div, no second child in it, or nothing
\* between the first and the last token of that child.
TimeContainerMissing(f) == f.timestamp = None \/ Len(Val(f.timestamp)) < 2
TimeMissing(f) ==
    \/ TimeContainerMissing(f)
    \/ Len(Split(Val(f.timestamp)[2])) <= 2
\* No index-label div of the fragment carries a marker.
LabelMissing(f) == MarkedLabels(f) = {}

\* The page selector is absent, or its last token is no integer.
SelectorUnresolvable(sel) ==
    \/ sel = None
    \/ Split(Val(sel)) = <<>>
    \/ ParseInt(Split(Val(sel))[Len(Split(Val(sel)))]) = None

\* The last token of the page selector, as an integer.
SelectorPages(sel) == Val(ParseInt(Split(Val(sel))[Len(Split(Val(sel)))]))

ExpectedUrl(n) ==
    IF n = 1 THEN threadPage
    ELSE threadPage \o <<"?", "p", "a", "g", "e", "=">> \o ToStr(n)

\* <<page, fragment>> a comes before b.
Before(a, b) == a[1] < b[1] \/ (a[1] = b[1] /\ a[2] < b[2])

IsPrefix(a, b) == Len(a) <= Len(b) /\ SubSeq(b, 1, Len(a)) = a

\* The crawl has ended, normally or not.
Ended == pc \in {"done", "aborted"}
\* The table posts was created by this crawl.
TableCreated == pc # "start" /\ raised # "OperationalError"

\* Every row has an id, a non-empty author and time, a text, and the page of
\* the fetch that found it, which is at most top.
RowsWellFormed(top) ==
    \A i \in 1..Len(rows) :
        /\ rows[i].id \in Int
        /\ Len(rows[i].author) > 0
        /\ Len(rows[i].time) > 0
        /\ Len(rows[i].postText) >= 0
        /\ i <= Len(emitted)
        /\ rows[i].page = emitted[i][1]
        /\ rows[i].page \in 1..top
        /\ rows[i].page <= page

\* A step from line 236 with a fragment lacking author, time or index label
\* writes nothing.
MissingNeverStored ==
    (/\ pc = "gate"
     /\ \/ AuthorMissing(Val(post))
        \/ TimeMissing(Val(post))
        \/ LabelMissing(Val(post)))
    => rows' = rows

\* A step changes or removes no row.
RowsOnlyAppended == IsPrefix(rows, rows')

\* ------------------------------------------------------------------ claims
\* C1: when the page-1 selector ends in an integer N >= 1 and no fetch
\* fails, the URLs requested by a crawl are exactly threadPage,
\* threadPage?page=2, ..., threadPage?page=N, in this order, each once.
C1_UrlSequence ==
    (/\ Ended
     /\ selector # None
     /\ ~SelectorUnresolvable(Val(selector))
     /\ SelectorPages(Val(selector)) >= 1
     /\ raised # "ConnectionError")
    => requested = [n \in 1..SelectorPages(Val(selector)) |-> ExpectedUrl(n)]

\* C2: a fragment with an author, a valid timestamp, an index label and a
\* body of blank text is accepted: the pass of the loop writes exactly one
\* record, with text "", to the sink.
C2_EmptyTextAccepted ==
    [][(/\ pc = "gate"
        /\ ~AuthorMissing(Val(post))
        /\ ~TimeMissing(Val(post))
        /\ ~LabelMissing(Val(post))
        /\ Val(post).body # None
        /\ Strip(Val(Val(post).body)) = <<>>)
       => (/\ Len(rows') = Len(rows) + 1
           /\ rows'[Len(rows')].postText = <<>>)]_vars

\* C3: a fragment without an anchor is rejected: its author is marked
\* missing, nothing is written for it, and the crawl goes on.
C3_MissingAuthorRejected ==
    (post # None /\ Val(post).anchor = None)
    => (/\ pc = "gate"
        /\ raised = NoError
        /\ Val(newpost).author = None
        /\ ~Gate(Val(newpost)))

\* C4: constructing a Post never raises: whatever the fragment lacks, the
\* constructor completes with that field missing, and the crawl goes on.
C4_ExtractionNeverRaises ==
    post # None
    => (/\ Val(newpost).raised = NoError
        /\ pc # "aborted"
        /\ (Val(post).anchor = None => Val(newpost).author = None)
        /\ (TimeContainerMissing(Val(post)) => Val(newpost).time = None)
        /\ (Val(post).body = None => Val(newpost).text = None))

\* C5: whenever getPostID returns, the id is 50*(page-1) + k for the marker
\* [#k] of the last index-label div that carries a marker, and unset when no
\* index-label div carries one.
C5_IdFormula ==
    (pc = "extracted" /\ Val(newpost).raised # "ValueError")
    => Val(newpost).id =
         IF MarkedLabels(Val(post)) = {} THEN None
         ELSE Some(PostsPerPage * (page - 1)
                   + MarkerValue(Val(post).labels[Max(MarkedLabels(Val(post)))]))

\* C6: when the page selector of page 1 is absent or does not end in an
\* integer, the crawl aborts having requested only threadPage, with no
\* record written and the summary never run.
C6_PageBoundsFatal ==
    (selector # None /\ SelectorUnresolvable(Val(selector)))
    => (/\ pc = "aborted"
        /\ raised \in {"AttributeError", "IndexError", "ValueError"}
        /\ requested = <<threadPage>>
        /\ rows = <<>>
        /\ accepted = <<>>
        /\ ~reported)

C6_Witness ==
    /\ pc = "aborted"
    /\ selector = Some(Some(<<"1", " ", "o", "f">>))
    /\ requested = <<threadPage>>

\* C7: schema initialization is create-if-absent: it succeeds on a store
\* that already holds the table and leaves its rows as they are, and it
\* creates the table empty when it is absent.
C7_CreateIfAbsent ==
    [][pc = "start"
       => (/\ pc' = "fetch"
           /\ tableExists'
           /\ rows' = IF tableExists THEN rows ELSE <<>>)]_vars

\* C8: the rows written are the accepted fragments in the order of page and,
\* within a page, of fragment; a record is in the sink before the next
\* fragment is extracted, and the records of a page before the next fetch.
C8_StreamingOrder ==
    /\ \A i \in 1..(Len(emitted) - 1) : Before(emitted[i], emitted[i + 1])
    /\ TableCreated =>
         /\ Len(rows) = Len(emitted)
         /\ \A i \in 1..Len(rows) : rows[i].page = emitted[i][1]
    /\ accepted = IF raised = "IntegrityError"
                  THEN Append(emitted, <<page, frag>>)
                  ELSE emitted
    /\ pc = "fetch" => \A i \in 1..Len(emitted) : emitted[i][1] < page
    /\ pc = "posts" => \A i \in 1..Len(emitted) :
                         emitted[i] = <<page, frag>> \/ Before(emitted[i], <<page, frag>>)
    /\ pc = "gate" => \A i \in 1..Len(emitted) : Before(emitted[i], <<page, frag>>)

C8_Witness ==
    /\ pc = "fetch"
    /\ Len(rows) = 3
    /\ emitted = << <<1, 1>>, <<1, 2>>, <<2, 2>> >>

\* C9: every id in the store is a positive integer and no two rows share an
\* id; inserting an accepted record whose id is stored fails, aborts the
\* crawl and leaves the rows as they are.
C9_StoreIds ==
    /\ [](/\ \A i \in 1..Len(rows) : rows[i].id > 0
          /\ \A i, j \in 1..Len(rows) : rows[i].id = rows[j].id => i = j)
    /\ [][(/\ pc = "gate"
           /\ Gate(Val(newpost))
           /\ \E i \in 1..Len(rows) : rows[i].id = Val(Val(newpost).id))
          => (/\ rows' = rows
              /\ pc' = "aborted"
              /\ raised' = "IntegrityError")]_vars

\* A marker above 50 on page 1 and marker 1 on page 2 give the same id.
C9_Witness ==
    /\ raised = "IntegrityError"
    /\ Val(newpost).page = 2
    /\ Val(newpost).id = Some(51)
    /\ \E i \in 1..Len(rows) : rows[i].id = 51 /\ rows[i].page = 1

====
